---- MODULE Spec2Model ----
(***************************************************************************)
(* Model of the payments engine: TransactionEngine (engine.rs) applied to  *)
(* a stream of Transaction records (lib.rs process_batch / main.rs loop),  *)
(* with the Account arithmetic of transaction.rs.                          *)
(*                                                                         *)
(* Decimal amounts are exact fixed-point numbers; they are modelled as     *)
(* integers (a count of the smallest unit), which is exact for +, - and >=.*)
(* Option<Decimal> is modelled as a sequence: <<>> is None, <<a>> Some(a). *)
(***************************************************************************)
EXTENDS Integers, Sequences, FiniteSets, TLC

\* ---- bounds of the model ------------------------------------------------
MaxClient  == 2      \* client ids 1..MaxClient          (u16 in the source)
MaxTx      == 2      \* transaction ids 1..MaxTx         (u32 in the source)
MaxNegative == 1     \* amounts -MaxNegative..MaxAmount: Decimal is signed
MaxAmount  == 2      \* and the engine never validates the sign
MaxRecords == 5      \* length of the input stream

Clients == 1..MaxClient
TxIds   == 1..MaxTx
Amounts == (0 - MaxNegative)..MaxAmount

None    == <<>>
Some(a) == <<a>>
OptAmounts == {None} \cup {Some(a) : a \in Amounts}

VARIABLES
    accounts,       \* TransactionEngine.accounts : HashMap<u16, Account>
    transactions,   \* TransactionEngine.transactions : HashMap<u32, StoredTransaction>
    last,           \* the record handed to the last process call and its Result
    nrecords,       \* number of records consumed from the input stream
    chargedback     \* history: ids whose chargeback process has accepted

vars == <<accounts, transactions, last, nrecords, chargedback>>

\* ---- transaction.rs : Account -------------------------------------------
Account == [available : Int, held : Int, locked : BOOLEAN, total : Int]

new == [available |-> 0, held |-> 0, locked |-> FALSE, total |-> 0]

\* deposit that forgets to add to total
deposit_no_total(acc, amount) ==
    [acc EXCEPT !.available = @ + amount]

deposit(acc, amount) ==
    [acc EXCEPT !.available = @ + amount, !.total = @ + amount]

\* withdraw without the funds check
withdraw_unchecked(acc, amount) ==
    [account |-> [acc EXCEPT !.available = @ - amount, !.total = @ - amount],
     ok |-> TRUE]

\* withdraw that demands strictly more than the amount
withdraw_strict(acc, amount) ==
    IF acc.available > amount
    THEN [account |-> [acc EXCEPT !.available = @ - amount, !.total = @ - amount],
          ok |-> TRUE]
    ELSE [account |-> acc, ok |-> FALSE]

\* Result<()> of withdraw: ok = TRUE is Ok(()), ok = FALSE is "Insufficient funds"
withdraw(acc, amount) ==
    IF acc.available >= amount
    THEN [account |-> [acc EXCEPT !.available = @ - amount, !.total = @ - amount],
          ok |-> TRUE]
    ELSE [account |-> acc, ok |-> FALSE]

\* dispute that takes the funds without holding them
dispute_no_held(acc, amount) ==
    [acc EXCEPT !.available = @ - amount]

dispute(acc, amount) ==
    [acc EXCEPT !.available = @ - amount, !.held = @ + amount]

\* resolve that releases the hold without returning the funds
resolve_no_available(acc, amount) ==
    [acc EXCEPT !.held = @ - amount]

resolve(acc, amount) ==
    [acc EXCEPT !.held = @ - amount, !.available = @ + amount]

\* chargeback that forgets to reduce total
chargeback_no_total(acc, amount) ==
    [acc EXCEPT !.held = @ - amount, !.locked = TRUE]

\* chargeback that forgets to lock the account
chargeback_no_lock(acc, amount) ==
    [acc EXCEPT !.held = @ - amount, !.total = @ - amount]

chargeback(acc, amount) ==
    [acc EXCEPT !.held = @ - amount, !.total = @ - amount, !.locked = TRUE]

\* ---- engine.rs : TransactionEngine --------------------------------------
\* a stored record that keeps no owner of its own (client 1 for all)
StoredTransaction_wrong_client(amount, client, disputed) ==
    [amount |-> amount, client |-> 1, disputed |-> disputed]

StoredTransaction(amount, client, disputed) ==
    [amount |-> amount, client |-> client, disputed |-> disputed]

\* The outcome of one process_* call: the two maps after it and its Result.
Outcome(accts, txns, result) ==
    [accounts |-> accts, result |-> result, transactions |-> txns]

\* accounts.entry(client).or_insert_with(|| Account::new(client))
entry_or_insert(accts, client) ==
    IF client \in DOMAIN accts THEN accts ELSE accts @@ (client :> new)

\* process_deposit without the locked check
process_deposit_no_lock(accts, txns, tx) ==
    IF tx.amount = None THEN Outcome(accts, txns, "MissingAmount")
    ELSE LET amount == tx.amount[1]
             accts1 == entry_or_insert(accts, tx.client)
         IN  IF tx.tx \in DOMAIN txns
                THEN Outcome(accts1, txns, "DuplicateTransactionId")
             ELSE Outcome([accts1 EXCEPT ![tx.client] = deposit(@, amount)],
                          txns @@ (tx.tx :> StoredTransaction(amount, tx.client, FALSE)),
                          "Ok")

process_deposit(accts, txns, tx) ==
    IF tx.amount = None THEN Outcome(accts, txns, "MissingAmount")
    ELSE LET amount == tx.amount[1]
             accts1 == entry_or_insert(accts, tx.client)
         IN  IF accts1[tx.client].locked
                THEN Outcome(accts1, txns, "AccountLocked")
             ELSE IF tx.tx \in DOMAIN txns
                THEN Outcome(accts1, txns, "DuplicateTransactionId")
             ELSE Outcome([accts1 EXCEPT ![tx.client] = deposit(@, amount)],
                          txns @@ (tx.tx :> StoredTransaction(amount, tx.client, FALSE)),
                          "Ok")

\* process_withdrawal that keeps no record of the withdrawal
process_withdrawal_not_stored(accts, txns, tx) ==
    IF tx.amount = None THEN Outcome(accts, txns, "MissingAmount")
    ELSE LET amount == tx.amount[1]
             accts1 == entry_or_insert(accts, tx.client)
             w      == withdraw(accts1[tx.client], amount)
         IN  IF accts1[tx.client].locked
                THEN Outcome(accts1, txns, "AccountLocked")
             ELSE IF tx.tx \in DOMAIN txns
                THEN Outcome(accts1, txns, "DuplicateTransactionId")
             ELSE IF ~w.ok
                THEN Outcome(accts1, txns, "InsufficientFunds")
             ELSE Outcome([accts1 EXCEPT ![tx.client] = w.account], txns, "Ok")

\* process_withdrawal that looks for a duplicate id before the locked flag
process_withdrawal_duplicate_first(accts, txns, tx) ==
    IF tx.amount = None THEN Outcome(accts, txns, "MissingAmount")
    ELSE LET amount == tx.amount[1]
             accts1 == entry_or_insert(accts, tx.client)
             w      == withdraw(accts1[tx.client], amount)
         IN  IF tx.tx \in DOMAIN txns
                THEN Outcome(accts1, txns, "DuplicateTransactionId")
             ELSE IF accts1[tx.client].locked
                THEN Outcome(accts1, txns, "AccountLocked")
             ELSE IF ~w.ok
                THEN Outcome(accts1, txns, "InsufficientFunds")
             ELSE Outcome([accts1 EXCEPT ![tx.client] = w.account],
                          txns @@ (tx.tx :> StoredTransaction(amount, tx.client, FALSE)),
                          "Ok")

process_withdrawal(accts, txns, tx) ==
    IF tx.amount = None THEN Outcome(accts, txns, "MissingAmount")
    ELSE LET amount == tx.amount[1]
             accts1 == entry_or_insert(accts, tx.client)
             w      == withdraw(accts1[tx.client], amount)
         IN  IF accts1[tx.client].locked
                THEN Outcome(accts1, txns, "AccountLocked")
             ELSE IF tx.tx \in DOMAIN txns
                THEN Outcome(accts1, txns, "DuplicateTransactionId")
             ELSE IF ~w.ok
                THEN Outcome(accts1, txns, "InsufficientFunds")
             ELSE Outcome([accts1 EXCEPT ![tx.client] = w.account],
                          txns @@ (tx.tx :> StoredTransaction(amount, tx.client, FALSE)),
                          "Ok")

\* process_dispute that sets the flag before the ownership check
process_dispute_early_flag(accts, txns, tx) ==
    IF tx.tx \notin DOMAIN txns THEN Outcome(accts, txns, "TransactionNotFound")
    ELSE LET stored == txns[tx.tx]
             txns1  == [txns EXCEPT ![tx.tx].disputed = TRUE]
         IN  IF stored.client # tx.client
                THEN Outcome(accts, txns1, "ClientMismatch")
             ELSE IF stored.disputed
                THEN Outcome(accts, txns, "AlreadyDisputed")
             ELSE IF tx.client \notin DOMAIN accts
                THEN Outcome(accts, txns1, "AccountNotFound")
             ELSE Outcome([accts EXCEPT ![tx.client] = dispute(@, stored.amount)],
                          txns1, "Ok")

\* process_dispute without the ownership check
process_dispute_no_owner_check(accts, txns, tx) ==
    IF tx.tx \notin DOMAIN txns THEN Outcome(accts, txns, "TransactionNotFound")
    ELSE LET stored == txns[tx.tx]
             txns1  == [txns EXCEPT ![tx.tx].disputed = TRUE]
         IN  IF stored.disputed
                THEN Outcome(accts, txns, "AlreadyDisputed")
             ELSE IF tx.client \notin DOMAIN accts
                THEN Outcome(accts, txns1, "AccountNotFound")
             ELSE Outcome([accts EXCEPT ![tx.client] = dispute(@, stored.amount)],
                          txns1, "Ok")

process_dispute(accts, txns, tx) ==
    IF tx.tx \notin DOMAIN txns THEN Outcome(accts, txns, "TransactionNotFound")
    ELSE LET stored == txns[tx.tx]
             txns1  == [txns EXCEPT ![tx.tx].disputed = TRUE]
         IN  IF stored.client # tx.client
                THEN Outcome(accts, txns, "ClientMismatch")
             ELSE IF stored.disputed
                THEN Outcome(accts, txns, "AlreadyDisputed")
             ELSE IF tx.client \notin DOMAIN accts
                THEN Outcome(accts, txns1, "AccountNotFound")
             ELSE Outcome([accts EXCEPT ![tx.client] = dispute(@, stored.amount)],
                          txns1, "Ok")

\* process_resolve without the ownership check
process_resolve_no_owner_check(accts, txns, tx) ==
    IF tx.tx \notin DOMAIN txns THEN Outcome(accts, txns, "TransactionNotFound")
    ELSE LET stored == txns[tx.tx]
             txns1  == [txns EXCEPT ![tx.tx].disputed = FALSE]
         IN  IF ~stored.disputed
                THEN Outcome(accts, txns, "NotDisputed")
             ELSE IF tx.client \notin DOMAIN accts
                THEN Outcome(accts, txns1, "AccountNotFound")
             ELSE Outcome([accts EXCEPT ![tx.client] = resolve(@, stored.amount)],
                          txns1, "Ok")

process_resolve(accts, txns, tx) ==
    IF tx.tx \notin DOMAIN txns THEN Outcome(accts, txns, "TransactionNotFound")
    ELSE LET stored == txns[tx.tx]
             txns1  == [txns EXCEPT ![tx.tx].disputed = FALSE]
         IN  IF stored.client # tx.client
                THEN Outcome(accts, txns, "ClientMismatch")
             ELSE IF ~stored.disputed
                THEN Outcome(accts, txns, "NotDisputed")
             ELSE IF tx.client \notin DOMAIN accts
                THEN Outcome(accts, txns1, "AccountNotFound")
             ELSE Outcome([accts EXCEPT ![tx.client] = resolve(@, stored.amount)],
                          txns1, "Ok")

\* process_chargeback that charges the record owner whoever asks
process_chargeback_no_owner_check(accts, txns, tx) ==
    IF tx.tx \notin DOMAIN txns THEN Outcome(accts, txns, "TransactionNotFound")
    ELSE LET stored == txns[tx.tx]
         IN  IF ~stored.disputed
                THEN Outcome(accts, txns, "NotDisputed")
             ELSE IF stored.client \notin DOMAIN accts
                THEN Outcome(accts, txns, "AccountNotFound")
             ELSE Outcome([accts EXCEPT ![stored.client] = chargeback(@, stored.amount)],
                          txns, "Ok")

process_chargeback(accts, txns, tx) ==
    IF tx.tx \notin DOMAIN txns THEN Outcome(accts, txns, "TransactionNotFound")
    ELSE LET stored == txns[tx.tx]
         IN  IF stored.client # tx.client
                THEN Outcome(accts, txns, "ClientMismatch")
             ELSE IF ~stored.disputed
                THEN Outcome(accts, txns, "NotDisputed")
             ELSE IF tx.client \notin DOMAIN accts
                THEN Outcome(accts, txns, "AccountNotFound")
             ELSE Outcome([accts EXCEPT ![tx.client] = chargeback(@, stored.amount)],
                          txns, "Ok")

\* A Transaction record as deserialized from the input.
Transaction(tx_type, client, tx, amount) ==
    [amount |-> amount, client |-> client, tx |-> tx, tx_type |-> tx_type]

\* process: dispatch on tx_type
process(accts, txns, tx) ==
    CASE tx.tx_type = "deposit"    -> process_deposit(accts, txns, tx)
      [] tx.tx_type = "withdrawal" -> process_withdrawal(accts, txns, tx)
      [] tx.tx_type = "dispute"    -> process_dispute(accts, txns, tx)
      [] tx.tx_type = "resolve"    -> process_resolve(accts, txns, tx)
      [] tx.tx_type = "chargeback" -> process_chargeback(accts, txns, tx)

\* ---- the state machine ---------------------------------------------------
\* TransactionEngine::new(): both maps empty; no record consumed yet.
Init ==
    /\ accounts = << >>
    /\ transactions = << >>
    /\ last = [record |-> Transaction("none", 0, 0, None), result |-> "None"]
    /\ nrecords = 0
    /\ chargedback = {}

\* One iteration of the input loop: engine.process(tx), the error (if any)
\* is dropped and the loop goes on to the next record.
Apply(tx) ==
    /\ nrecords < MaxRecords
    /\ LET out == process(accounts, transactions, tx)
       IN  /\ accounts' = out.accounts
           /\ transactions' = out.transactions
           /\ last' = [record |-> tx, result |-> out.result]
           /\ chargedback' = IF tx.tx_type = "chargeback" /\ out.result = "Ok"
                             THEN chargedback \cup {tx.tx} ELSE chargedback
    /\ nrecords' = nrecords + 1

Deposit    == \E c \in Clients, t \in TxIds, a \in OptAmounts :
                  Apply(Transaction("deposit", c, t, a))
Withdrawal == \E c \in Clients, t \in TxIds, a \in OptAmounts :
                  Apply(Transaction("withdrawal", c, t, a))
Dispute    == \E c \in Clients, t \in TxIds :
                  Apply(Transaction("dispute", c, t, None))
Resolve    == \E c \in Clients, t \in TxIds :
                  Apply(Transaction("resolve", c, t, None))
Chargeback == \E c \in Clients, t \in TxIds :
                  Apply(Transaction("chargeback", c, t, None))

Next == Deposit \/ Withdrawal \/ Dispute \/ Resolve \/ Chargeback

Spec == Init /\ [][Next]_vars

\* ---- shape of the state ---------------------------------------------------
TypeOK ==
    /\ DOMAIN accounts \subseteq Clients
    /\ \A c \in DOMAIN accounts : accounts[c] \in Account
    /\ DOMAIN transactions \subseteq TxIds
    /\ \A t \in DOMAIN transactions :
          /\ transactions[t].client \in Clients
          /\ transactions[t].amount \in Amounts
          /\ transactions[t].disputed \in BOOLEAN
    /\ nrecords \in 0..MaxRecords
    /\ chargedback \subseteq DOMAIN transactions

\* ---- vocabulary of the properties ------------------------------------------
Monetary      == {"deposit", "withdrawal"}
DisputeFamily == {"dispute", "resolve", "chargeback"}

\* the last process call was of kind k and returned Ok(())
Accepted(k) == last.record.tx_type = k /\ last.result = "Ok"

\* the stored transactions owned by client c
TxOf(c) == {t \in DOMAIN transactions : transactions[t].client = c}

\* ---- C1 --------------------------------------------------------------------
\* C1: after any sequence of process calls, accepted or rejected, every
\* account of the engine satisfies total = available + held.
C1_TotalIsAvailablePlusHeld ==
    \A c \in DOMAIN accounts :
        accounts[c].total = accounts[c].available + accounts[c].held

\* a chargeback has been accepted and left a non-zero balance behind
C1_Witness ==
    /\ Accepted("chargeback")
    /\ accounts[last.record.client].locked
    /\ accounts[last.record.client].total # 0

\* ---- C2 --------------------------------------------------------------------
\* C2 as stated: every account has available >= 0 in every reachable state,
\* also after disputes, resolves and chargebacks.  It is stated here for the
\* histories most favourable to it, those whose stored amounts are all positive.
C2_AvailableNonNegative_Original ==
    (\A t \in DOMAIN transactions : transactions[t].amount > 0)
        => \A c \in DOMAIN accounts : accounts[c].available >= 0

\* C2 as amended: an account has available >= 0 in every reachable state in
\* which none of the client's stored transactions has a negative amount and
\* none of them is flagged disputed (only withdraw checks the funds; a dispute
\* subtracts the amount unchecked).
C2_AvailableNonNegative ==
    \A c \in DOMAIN accounts :
        (\A t \in TxOf(c) : transactions[t].amount >= 0 /\ ~transactions[t].disputed)
            => accounts[c].available >= 0

\* a dispute was opened and resolved again on an account that also withdrew
C2_Witness ==
    /\ Accepted("resolve")
    /\ Cardinality(TxOf(last.record.client)) = 2
    /\ \A t \in TxOf(last.record.client) :
           transactions[t].amount > 0 /\ ~transactions[t].disputed
    /\ accounts[last.record.client].available = 0

\* ---- C3 --------------------------------------------------------------------
\* C3: whenever process rejects a deposit or a withdrawal, the engine state
\* after the call equals the state before it: the set of accounts, every
\* account's fields and the stored-transaction map are unchanged.
C3_RejectedMonetaryChangesNothing ==
    [][ (last'.record.tx_type \in Monetary /\ last'.result # "Ok")
            => (accounts' = accounts /\ transactions' = transactions) ]_vars

\* ---- C4 --------------------------------------------------------------------
\* C4: whenever process rejects a dispute, resolve or chargeback, no account
\* is created or modified and no stored transaction is modified.
C4_RejectedDisputeFamilyChangesNothing ==
    [][ (last'.record.tx_type \in DisputeFamily /\ last'.result # "Ok")
            => (accounts' = accounts /\ transactions' = transactions) ]_vars

\* a dispute was rejected because the transaction is owned by another client
C4_Witness ==
    /\ last.record.tx_type = "dispute"
    /\ last.result = "ClientMismatch"
    /\ ~transactions[last.record.tx].disputed

\* ---- C5 --------------------------------------------------------------------
\* C5: once an account is locked it stays locked, and every later deposit or
\* withdrawal addressed to that client is rejected, leaves the account as it
\* was and stores no transaction record.
C5_LockedIsPermanent ==
    [][ \A c \in DOMAIN accounts :
            accounts[c].locked =>
                /\ c \in DOMAIN accounts'
                /\ accounts'[c].locked
                /\ (last'.record.tx_type \in Monetary /\ last'.record.client = c)
                       => /\ last'.result # "Ok"
                          /\ accounts'[c] = accounts[c]
                          /\ transactions' = transactions ]_vars

\* a deposit with an amount and an unused id bounced off a locked account
C5_Witness ==
    /\ last.record.tx_type = "deposit"
    /\ last.result = "AccountLocked"
    /\ last.record.tx \notin DOMAIN transactions
    /\ accounts[last.record.client].locked

\* ---- C6 --------------------------------------------------------------------
\* C6: a stored transaction's disputed flag is true exactly when a dispute of
\* it has been accepted and no resolve or chargeback of it has been accepted
\* since.  Stated step by step: after each call the flag of t is TRUE if the
\* call was an accepted dispute of t, FALSE if it was an accepted resolve or
\* chargeback of t, FALSE if t was only just stored, and as before otherwise
\* (stated for the transactions of positive amount).
C6_DisputedIffOpenDispute ==
    [][ \A t \in DOMAIN transactions' :
          transactions'[t].amount > 0 =>
            transactions'[t].disputed =
                IF last'.record.tx = t /\ last'.result = "Ok"
                   /\ last'.record.tx_type = "dispute"
                THEN TRUE
                ELSE IF last'.record.tx = t /\ last'.result = "Ok"
                        /\ last'.record.tx_type \in {"resolve", "chargeback"}
                THEN FALSE
                ELSE (t \in DOMAIN transactions /\ transactions[t].disputed) ]_vars

\* ---- C7 --------------------------------------------------------------------
\* C7: once a chargeback of transaction t has been accepted, no later dispute,
\* resolve or chargeback record referencing t changes the available, held,
\* total or locked value of any account.  Stated for the histories whose
\* stored amounts are all positive.
C7_NothingAfterChargeback ==
    [][ (/\ last'.record.tx_type \in DisputeFamily
         /\ last'.record.tx \in chargedback
         /\ \A t \in DOMAIN transactions : transactions[t].amount > 0)
            => \A c \in DOMAIN accounts :
                   c \in DOMAIN accounts' /\ accounts'[c] = accounts[c] ]_vars

\* ---- C8 --------------------------------------------------------------------
\* C8: a deposit or withdrawal whose id is already stored, for the same or a
\* different client, is rejected, alters no account, and the stored record
\* keeps its client, amount and disputed flag.
C8_DuplicateIdRejected ==
    [][ (last'.record.tx_type \in Monetary
            /\ last'.record.tx \in DOMAIN transactions)
            => /\ last'.result # "Ok"
               /\ accounts' = accounts
               /\ last'.record.tx \in DOMAIN transactions'
               /\ transactions'[last'.record.tx] = transactions[last'.record.tx] ]_vars

\* ---- C9 --------------------------------------------------------------------
\* C9: from every reachable state in which a dispute of a stored transaction
\* is accepted, that dispute followed by a resolve of the same transaction by
\* the same client succeeds and leaves the account's available, held, total and
\* locked and the transaction's disputed flag as they were before the dispute.
C9_DisputeResolveRoundTrip ==
    \A c \in Clients, t \in TxIds :
        LET d == process(accounts, transactions, Transaction("dispute", c, t, None))
            r == process(d.accounts, d.transactions, Transaction("resolve", c, t, None))
        IN  d.result = "Ok" =>
                /\ r.result = "Ok"
                /\ r.accounts[c] = accounts[c]
                /\ r.transactions[t].disputed = transactions[t].disputed

\* a resolve was accepted, which closes a dispute accepted before it
C9_Witness ==
    /\ Accepted("resolve")
    /\ ~transactions[last.record.tx].disputed
    /\ transactions[last.record.tx].amount # 0
    /\ accounts[last.record.client].held = 0
    /\ ~accounts[last.record.client].locked

\* ---- C10 -------------------------------------------------------------------
\* C10: for every amount a and every client without an account, a deposit of
\* a under an unused id followed by a withdrawal of a under another unused id
\* are both accepted and leave the account with available = 0, held = 0,
\* total = 0 and locked = FALSE.
C10_DepositWithdrawRoundTrip ==
    \A c \in Clients \ DOMAIN accounts, a \in Amounts :
        \A t1, t2 \in TxIds \ DOMAIN transactions :
            LET d == process(accounts, transactions,
                             Transaction("deposit", c, t1, Some(a)))
                w == process(d.accounts, d.transactions,
                             Transaction("withdrawal", c, t2, Some(a)))
            IN  t1 # t2 =>
                    /\ d.result = "Ok"
                    /\ w.result = "Ok"
                    /\ w.accounts[c] = new

\* an account holds exactly one deposit and one withdrawal of the same
\* non-zero amount, the withdrawal accepted last, and is back at zero
C10_Witness ==
    /\ Accepted("withdrawal")
    /\ Cardinality(TxOf(last.record.client)) = 2
    /\ \A t \in TxOf(last.record.client) :
           transactions[t].amount = last.record.amount[1]
    /\ last.record.amount[1] # 0
    /\ accounts[last.record.client] = new
    /\ Cardinality(DOMAIN accounts) = 1

\* ---- C11 -------------------------------------------------------------------
\* C11: a withdrawal under an unused id against an existing unlocked account
\* is rejected for insufficient funds when its amount exceeds available, and
\* then leaves the account unchanged and stores nothing; when the amount is at
\* most available it is accepted and subtracts the amount from available and
\* from total.
C11_WithdrawalFundsCheck ==
    [][ \A c \in DOMAIN accounts :
          ( /\ ~accounts[c].locked
            /\ last'.record.tx_type = "withdrawal"
            /\ last'.record.client = c
            /\ last'.record.amount # None
            /\ last'.record.tx \notin DOMAIN transactions )
          => LET a == last'.record.amount[1]
             IN  IF a > accounts[c].available
                 THEN /\ last'.result = "InsufficientFunds"
                      /\ accounts'[c] = accounts[c]
                      /\ transactions' = transactions
                 ELSE /\ last'.result = "Ok"
                      /\ accounts'[c] =
                            [accounts[c] EXCEPT !.available = @ - a, !.total = @ - a]
                      /\ last'.record.tx \in DOMAIN transactions' ]_vars

\* a withdrawal under an unused id bounced off an unlocked account with funds
C11_Witness ==
    /\ last.record.tx_type = "withdrawal"
    /\ last.result = "InsufficientFunds"
    /\ last.record.tx \notin DOMAIN transactions
    /\ accounts[last.record.client].available > 0
    /\ ~accounts[last.record.client].locked

\* ---- C12 -------------------------------------------------------------------
\* C12: an accepted chargeback of a stored transaction of amount m changes the
\* owning account by held -= m, total -= m, locked := TRUE and nothing else,
\* and changes no other account; and from every reachable state, deposit(m),
\* dispute, chargeback on a client without an account ends with available = 0,
\* held = 0, total = 0, locked = TRUE.
C12_ChargebackScenario ==
    \A c \in Clients \ DOMAIN accounts, t \in TxIds \ DOMAIN transactions,
       m \in Amounts :
        LET s1 == process(accounts, transactions, Transaction("deposit", c, t, Some(m)))
            s2 == process(s1.accounts, s1.transactions, Transaction("dispute", c, t, None))
            s3 == process(s2.accounts, s2.transactions,
                          Transaction("chargeback", c, t, None))
        IN  /\ s3.result = "Ok"
            /\ s3.accounts[c] = [available |-> 0, held |-> 0, locked |-> TRUE, total |-> 0]

C12_ChargebackEffect ==
    /\ []C12_ChargebackScenario
    /\ [][ (last'.record.tx_type = "chargeback" /\ last'.result = "Ok")
             => LET c == last'.record.client
                    m == transactions[last'.record.tx].amount
                IN  accounts' = [accounts EXCEPT ![c] =
                        [available |-> accounts[c].available,
                         held      |-> accounts[c].held - m,
                         locked    |-> TRUE,
                         total     |-> accounts[c].total - m]] ]_vars

\* deposit, dispute, chargeback of a non-zero amount ended at zero and locked
C12_Witness ==
    /\ Accepted("chargeback")
    /\ transactions[last.record.tx].amount # 0
    /\ accounts[last.record.client] =
           [available |-> 0, held |-> 0, locked |-> TRUE, total |-> 0]

\* ---- C13 -------------------------------------------------------------------
\* C13 as stated: every dispute, resolve or chargeback that names a client
\* without an account, or a transaction id that is not stored, is rejected
\* with the not-found reason and creates no account.
C13_UnknownIsNotFound_Original ==
    [][ ( /\ last'.record.tx_type \in DisputeFamily
          /\ \/ last'.record.client \notin DOMAIN accounts
             \/ last'.record.tx \notin DOMAIN transactions )
            => /\ last'.result \in {"TransactionNotFound", "AccountNotFound"}
               /\ accounts' = accounts ]_vars

\* C13 as amended: such a record is always rejected and creates no account;
\* the reason is not-found when the transaction id is not stored, and client
\* mismatch when the id is stored (its owner is then another client, the one
\* named having no account).
C13_UnknownIsRejected ==
    [][ ( /\ last'.record.tx_type \in DisputeFamily
          /\ \/ last'.record.client \notin DOMAIN accounts
             \/ last'.record.tx \notin DOMAIN transactions )
            => /\ last'.result =
                     IF last'.record.tx \notin DOMAIN transactions
                     THEN "TransactionNotFound" ELSE "ClientMismatch"
               /\ accounts' = accounts
               /\ transactions' = transactions ]_vars

\* a resolve of a disputed transaction named a client that has no account
C13_Witness ==
    /\ last.record.tx_type = "resolve"
    /\ last.result = "ClientMismatch"
    /\ last.record.client \notin DOMAIN accounts
    /\ transactions[last.record.tx].disputed

\* ---- C14 -------------------------------------------------------------------
\* C14: a process call carrying client id c, of any kind, accepted or
\* rejected, changes no account of another client and no stored transaction
\* owned by another client; a dispute, resolve or chargeback whose client
\* differs from the stored record's owner is rejected.
C14_CrossClientIsolation ==
    [][ LET c == last'.record.client
        IN  /\ \A c2 \in DOMAIN accounts \ {c} :
                   c2 \in DOMAIN accounts' /\ accounts'[c2] = accounts[c2]
            /\ \A t \in DOMAIN transactions :
                   transactions[t].client # c =>
                       t \in DOMAIN transactions' /\ transactions'[t] = transactions[t]
            /\ ( /\ last'.record.tx_type \in DisputeFamily
                 /\ last'.record.tx \in DOMAIN transactions
                 /\ transactions[last'.record.tx].client # c )
                   => last'.result = "ClientMismatch" ]_vars

\* a chargeback of another client's disputed transaction was turned away
C14_Witness ==
    /\ last.record.tx_type = "chargeback"
    /\ last.result = "ClientMismatch"
    /\ transactions[last.record.tx].disputed
    /\ last.record.client \in DOMAIN accounts
    /\ ~accounts[transactions[last.record.tx].client].locked

\* ---- C15 -------------------------------------------------------------------
\* C15: a dispute, resolve or chargeback is accepted only if a deposit or
\* withdrawal with the same id and the same client was accepted earlier; one
\* that arrives before its monetary transaction is rejected and leaves the
\* engine as it was, so the later monetary transaction is applied as if it
\* had never arrived.  "Accepted earlier" is the stored map: an id enters it
\* only by an accepted deposit or withdrawal carrying that id and client.
C15_DisputeNeedsEarlierTransaction ==
    [][ /\ \A t \in DOMAIN transactions' \ DOMAIN transactions :
               /\ last'.record.tx_type \in Monetary
               /\ last'.result = "Ok"
               /\ last'.record.tx = t
               /\ last'.record.client = transactions'[t].client
        /\ (last'.record.tx_type \in DisputeFamily /\ last'.result = "Ok")
               => /\ last'.record.tx \in DOMAIN transactions
                  /\ transactions[last'.record.tx].client = last'.record.client
        /\ (last'.record.tx_type \in DisputeFamily
                /\ last'.record.tx \notin DOMAIN transactions)
               => /\ last'.result # "Ok"
                  /\ accounts' = accounts
                  /\ transactions' = transactions ]_vars

\* a dispute arrived for an id not stored yet, on an engine that already
\* holds an account for its client and other transactions
C15_Witness ==
    /\ last.record.tx_type = "dispute"
    /\ last.result = "TransactionNotFound"
    /\ last.record.client \in DOMAIN accounts
    /\ DOMAIN transactions # {}

\* ---- C16 -------------------------------------------------------------------
\* C16: a stored record is created exactly when a deposit or withdrawal is
\* accepted (never by a dispute, resolve, chargeback or a rejected record);
\* once stored it is never removed and its amount and client never change;
\* an account, once created, is never removed.
C16_RecordLifecycle ==
    [][ /\ DOMAIN transactions \subseteq DOMAIN transactions'
        /\ \A t \in DOMAIN transactions :
               /\ transactions'[t].amount = transactions[t].amount
               /\ transactions'[t].client = transactions[t].client
        /\ DOMAIN transactions' \ DOMAIN transactions =
               IF last'.record.tx_type \in Monetary /\ last'.result = "Ok"
               THEN {last'.record.tx} ELSE {}
        /\ (last'.record.tx_type \in Monetary /\ last'.result = "Ok")
               => /\ last'.record.tx \notin DOMAIN transactions
                  /\ transactions'[last'.record.tx] =
                         [amount   |-> last'.record.amount[1],
                          client   |-> last'.record.client,
                          disputed |-> FALSE]
        /\ DOMAIN accounts \subseteq DOMAIN accounts' ]_vars

\* an accepted withdrawal of a non-zero amount has left its record
C16_Witness ==
    /\ Accepted("withdrawal")
    /\ last.record.tx \in DOMAIN transactions
    /\ transactions[last.record.tx].amount = last.record.amount[1]
    /\ last.record.amount[1] # 0
    /\ Cardinality(DOMAIN transactions) = 2

\* ---- C17 -------------------------------------------------------------------
\* C17: an accepted dispute of a stored transaction of amount m, deposit or
\* withdrawal, account locked or not, sets its disputed flag and changes the
\* owning account by available -= m, held += m, leaving total and locked.
C17_DisputeEffect ==
    [][ (last'.record.tx_type = "dispute" /\ last'.result = "Ok")
            => LET c == last'.record.client
                   t == last'.record.tx
                   m == transactions[t].amount
               IN  /\ transactions' = [transactions EXCEPT ![t].disputed = TRUE]
                   /\ accounts' = [accounts EXCEPT ![c] =
                          [available |-> accounts[c].available - m,
                           held      |-> accounts[c].held + m,
                           locked    |-> accounts[c].locked,
                           total     |-> accounts[c].total] ] ]_vars

\* a dispute was accepted on an account that a chargeback had locked
C17_Witness ==
    /\ Accepted("dispute")
    /\ accounts[last.record.client].locked
    /\ transactions[last.record.tx].amount > 0
    /\ transactions[last.record.tx].disputed

\* ---- C18 -------------------------------------------------------------------
\* The reason the claim predicts: that of the first failing check in the
\* claimed order, "Ok" when no check fails.
FirstFailingCheck(accts, txns, tx) ==
    IF tx.tx_type \in Monetary
    THEN IF tx.amount = None THEN "MissingAmount"
         ELSE IF tx.client \in DOMAIN accts /\ accts[tx.client].locked
              THEN "AccountLocked"
         ELSE IF tx.tx \in DOMAIN txns THEN "DuplicateTransactionId"
         ELSE IF /\ tx.tx_type = "withdrawal"
                 /\ tx.amount[1] > (IF tx.client \in DOMAIN accts
                                    THEN accts[tx.client].available ELSE 0)
              THEN "InsufficientFunds"
         ELSE "Ok"
    ELSE IF tx.tx \notin DOMAIN txns THEN "TransactionNotFound"
         ELSE IF txns[tx.tx].client # tx.client THEN "ClientMismatch"
         ELSE IF tx.tx_type = "dispute" /\ txns[tx.tx].disputed THEN "AlreadyDisputed"
         ELSE IF tx.tx_type # "dispute" /\ ~txns[tx.tx].disputed THEN "NotDisputed"
         ELSE "Ok"

\* C18: the rejection reason is that of the first failing check in the order
\* missing amount, account locked, duplicate id, insufficient funds for a
\* deposit or withdrawal, and not found, client mismatch, already disputed /
\* not disputed for a dispute, resolve or chargeback; a record is accepted
\* exactly when none of its checks fails.
C18_RejectionReasonOrder ==
    [][ last'.result = FirstFailingCheck(accounts, transactions, last'.record) ]_vars

\* a withdrawal failed three checks at once (locked account, id in use, no
\* funds) and was reported as account locked
C18_Witness ==
    /\ last.record.tx_type = "withdrawal"
    /\ last.result = "AccountLocked"
    /\ last.record.tx \in DOMAIN transactions
    /\ last.record.amount[1] > accounts[last.record.client].available

\* ---- C19 -------------------------------------------------------------------
\* C19: in every reachable state the owner of every stored transaction has an
\* account, so the "Account not found" return of dispute, resolve and
\* chargeback never happens, and with it the one path on which a dispute
\* sets the disputed flag without moving the funds.
C19_OwnerHasAccount ==
    /\ \A t \in DOMAIN transactions : transactions[t].client \in DOMAIN accounts
    /\ last.result # "AccountNotFound"

\* a dispute was accepted and the funds of its transaction are held
C19_Witness ==
    /\ Accepted("dispute")
    /\ transactions[last.record.tx].amount # 0
    /\ accounts[last.record.client].held = transactions[last.record.tx].amount
    /\ Cardinality(DOMAIN accounts) = 2

\* ---- C20 -------------------------------------------------------------------
\* C20: in every state reached by deposits and withdrawals of positive
\* amounts only, every account has held >= 0.
C20_HeldNonNegative ==
    (\A t \in DOMAIN transactions : transactions[t].amount > 0)
        => \A c \in DOMAIN accounts : accounts[c].held >= 0

====
